---- MODULE Spec2Model ----
(***************************************************************************)
(* A model of src/main.py: the line indexer (number_lines), the evidence   *)
(* resolver (extract_evidence_from_line_ids), the JSON extractor           *)
(* (must_json) and the two-pass pipeline of main().                        *)
(*                                                                         *)
(* A Python str is a sequence of one-character strings.  A value that      *)
(* json.loads can return is a tagged record [t, v]:                        *)
(*   int   v = the integer           float v = <<sign, whole, fraction>>   *)
(*   str   v = the characters        bool  v = TRUE / FALSE                *)
(*   null  v = <<>>                  list  v = the sequence of values      *)
(*   obj   v = the sequence of <<key, value>> pairs in insertion order     *)
(***************************************************************************)
EXTENDS Integers, Sequences, FiniteSets, TLC

VARIABLES
    pc,               \* position in main(), or in the call of one function
    missing,          \* the input files that do not exist
    schema,           \* the loaded schema
    study_text,       \* main: study_text
    numbered_text,    \* main: numbered_text
    line_map,         \* main: line_map
    extract_raw,      \* main: extract_raw
    line_ids_result,  \* main: line_ids_result
    evidence_quotes,  \* main: extracted["evidence_quotes"]
    not_found,        \* main: extracted["not_found"]
    judge_raw,        \* main: judge_raw
    result,           \* main: result
    calls,            \* number of requests sent to the model backend
    written,          \* number of writes of the output artifact
    steps,            \* the steps that have run, in order
    err,              \* the exception that ended the run, or "none"
    arg,              \* the argument of the function under call
    ret               \* what the function under call returned or raised

pipeVars == <<missing, schema, study_text, numbered_text, line_map, extract_raw,
              line_ids_result, evidence_quotes, not_found, judge_raw, result,
              calls, written, steps, err>>
fnVars == <<arg, ret>>
vars == <<pc, pipeVars, fnVars>>

(***************************************************************************)
(* Bounds of the model.                                                    *)
(***************************************************************************)
MaxDocLen == 4
MaxIds == 2
MaxDepth == 2
MaxRawLen == 3
MaxPipeDocLen == 3
MaxPipeIds == 1

\* the value of a variable that holds nothing yet
NoValue == [t |-> "none", v |-> <<>>]

(***************************************************************************)
(* Python str operations.                                                  *)
(***************************************************************************)
NL == "\n"

\* the characters str.strip() removes
IsSpace(c) == c \in {" ", "\n", "\t", "\r"}

RECURSIVE SeqsUpTo(_, _)
\* every sequence over S of length at most n
SeqsUpTo(S, n) ==
    IF n = 0 THEN {<<>>}
    ELSE LET shorter == SeqsUpTo(S, n - 1)
         IN  shorter \cup {Append(s, x) : s \in {t \in shorter : Len(t) = n - 1}, x \in S}

StartsWith(s, prefix) ==
    /\ Len(s) >= Len(prefix)
    /\ SubSeq(s, 1, Len(prefix)) = prefix

Contains(s, c) == \E i \in 1..Len(s) : s[i] = c

\* str.find(c) as a 1-based position; 0 when c does not occur
Find(s, c) ==
    IF Contains(s, c) THEN CHOOSE i \in 1..Len(s) : s[i] = c /\ \A j \in 1..(i - 1) : s[j] # c
    ELSE 0

RECURSIVE LStrip(_)
LStrip(s) == IF s # <<>> /\ IsSpace(Head(s)) THEN LStrip(Tail(s)) ELSE s

RECURSIVE RStrip(_)
RStrip(s) == IF s # <<>> /\ IsSpace(s[Len(s)]) THEN RStrip(SubSeq(s, 1, Len(s) - 1)) ELSE s

\* str.strip()
Strip(s) == RStrip(LStrip(s))

RECURSIVE Split(_)
\* str.split("\n"): always at least one piece, empty pieces kept
Split(s) ==
    LET p == Find(s, NL)
    IN  IF p = 0 THEN <<s>>
        ELSE <<SubSeq(s, 1, p - 1)>> \o Split(SubSeq(s, p + 1, Len(s)))

RECURSIVE Join(_)
\* "\n".join(pieces)
Join(pieces) ==
    IF pieces = <<>> THEN <<>>
    ELSE IF Len(pieces) = 1 THEN pieces[1]
    ELSE pieces[1] \o <<NL>> \o Join(Tail(pieces))

DigitChars == <<"0", "1", "2", "3", "4", "5", "6", "7", "8", "9">>

RECURSIVE Digits(_)
Digits(n) ==
    IF n < 10 THEN <<DigitChars[n + 1]>>
    ELSE Digits(n \div 10) \o <<DigitChars[(n % 10) + 1]>>

\* str(n) of an int
StrInt(n) == IF n < 0 THEN <<"-">> \o Digits(0 - n) ELSE Digits(n)

(***************************************************************************)
(* number_lines                                                            *)
(***************************************************************************)
\* f"[LINE_{i}] {line}"
NumberedLine(i, line) == <<"[", "L", "I", "N", "E", "_">> \o StrInt(i) \o <<"]", " ">> \o line

\* the slip of numbering from enumerate's default start
number_lines_from_zero(text) ==
    LET lines == Split(text)
    IN  [numbered_text |-> Join([i \in 1..Len(lines) |-> NumberedLine(i - 1, lines[i])]),
         line_map |-> [i \in 0..(Len(lines) - 1) |-> Strip(lines[i + 1])]]

number_lines(text) ==
    LET lines == Split(text)
    IN  [numbered_text |-> Join([i \in 1..Len(lines) |-> NumberedLine(i, lines[i])]),
         line_map |-> [i \in 1..Len(lines) |-> Strip(lines[i])]]

(***************************************************************************)
(* Documents.                                                              *)
(***************************************************************************)
DocChars == {"a", " ", NL}
Docs == SeqsUpTo(DocChars, MaxDocLen)

PipelineIdle ==
    /\ missing = {}
    /\ schema = NoValue
    /\ study_text = <<>>
    /\ numbered_text = <<>>
    /\ line_map = <<>>
    /\ extract_raw = <<>>
    /\ line_ids_result = NoValue
    /\ evidence_quotes = <<>>
    /\ not_found = NoValue
    /\ judge_raw = <<>>
    /\ result = NoValue
    /\ calls = 0
    /\ written = 0
    /\ steps = <<>>
    /\ err = "none"

(***************************************************************************)
(* Python values, as json.loads builds them.                               *)
(***************************************************************************)
PyInt(n) == [t |-> "int", v |-> n]
\* a float sign * whole.fraction, e.g. 1.0 is PyFloat(1, 1, <<"0">>)
PyFloat(sign, whole, fraction) == [t |-> "float", v |-> <<sign, whole, fraction>>]
PyStr(s) == [t |-> "str", v |-> s]
PyBool(b) == [t |-> "bool", v |-> b]
PyNone == [t |-> "null", v |-> <<>>]
PyList(items) == [t |-> "list", v |-> items]
PyDict(pairs) == [t |-> "obj", v |-> pairs]

IsDict(x) == x.t = "obj"

\* dict.get(key, default)
DictGet(d, key, default) ==
    IF \E i \in 1..Len(d.v) : d.v[i][1] = key
    THEN d.v[CHOOSE i \in 1..Len(d.v) : d.v[i][1] = key][2]
    ELSE default

\* d[key] = value: a new key is appended, an existing key keeps its place
DictSet(pairs, key, value) ==
    IF \E i \in 1..Len(pairs) : pairs[i][1] = key
    THEN [i \in 1..Len(pairs) |-> IF pairs[i][1] = key THEN <<key, value>> ELSE pairs[i]]
    ELSE Append(pairs, <<key, value>>)

\* whether "for x in value" can start
IsIterable(x) == x.t \in {"list", "str", "obj"}

\* what "for x in value" yields: the items of a list, the characters of a
\* str, the keys of a dict
IterItems(x) ==
    CASE x.t = "list" -> x.v
      [] x.t = "str" -> [i \in 1..Len(x.v) |-> PyStr(<<x.v[i]>>)]
      [] x.t = "obj" -> [i \in 1..Len(x.v) |-> PyStr(x.v[i][1])]
      [] OTHER -> <<>>

\* hash(x) raises TypeError for a list and a dict
IsHashable(x) == x.t \notin {"list", "obj"}

AllZero(digits) == \A i \in 1..Len(digits) : digits[i] = "0"

\* whether x == k for an int k: True == 1, False == 0, 1.0 == 1
EqualsInt(x, k) ==
    CASE x.t = "int" -> x.v = k
      [] x.t = "bool" -> (IF x.v THEN 1 ELSE 0) = k
      [] x.t = "float" -> AllZero(x.v[3]) /\ x.v[1] * x.v[2] = k
      [] OTHER -> FALSE

\* "x in line_map" for a hashable x
InMap(x, map) == \E k \in DOMAIN map : EqualsInt(x, k)

\* line_map[x]
MapGet(x, map) == map[CHOOSE k \in DOMAIN map : EqualsInt(x, k)]

RECURSIVE DropTrailingZeros(_)
DropTrailingZeros(digits) ==
    IF Len(digits) > 1 /\ digits[Len(digits)] = "0"
    THEN DropTrailingZeros(SubSeq(digits, 1, Len(digits) - 1))
    ELSE digits

\* str(x), as an f-string renders x
Format(x) ==
    CASE x.t = "int" -> StrInt(x.v)
      [] x.t = "bool" -> IF x.v THEN <<"T", "r", "u", "e">> ELSE <<"F", "a", "l", "s", "e">>
      [] x.t = "float" -> (IF x.v[1] < 0 THEN <<"-">> ELSE <<>>) \o Digits(x.v[2])
                              \o <<".">> \o DropTrailingZeros(x.v[3])
      [] x.t = "str" -> x.v
      [] x.t = "null" -> <<"N", "o", "n", "e">>
      [] OTHER -> <<"?">>

(***************************************************************************)
(* extract_evidence_from_line_ids                                          *)
(***************************************************************************)
Returned(value) == [raised |-> FALSE, exc |-> "none", value |-> value]
Raised(exc) == [raised |-> TRUE, exc |-> exc, value |-> NoValue]

LinePrefix == <<"L", "i", "n", "e", " ">>

EvidenceRecord(line_id, map, topic) ==
    [quote |-> MapGet(line_id, map),
     location |-> LinePrefix \o Format(line_id),
     topic |-> topic]

RECURSIVE EvidenceLoop(_, _, _, _)
\* the for loop over line_ids, evidence being the records appended so far
EvidenceLoop(items, map, topic, evidence) ==
    IF items = <<>> THEN Returned(evidence)
    ELSE LET line_id == Head(items)
         IN  IF ~IsHashable(line_id) THEN Raised("TypeError")
             ELSE IF InMap(line_id, map) /\ MapGet(line_id, map) # <<>>
             THEN EvidenceLoop(Tail(items), map, topic,
                               Append(evidence, EvidenceRecord(line_id, map, topic)))
             ELSE EvidenceLoop(Tail(items), map, topic, evidence)

\* the slip of testing only that the identifier is a key
extract_evidence_keeping_blank(line_ids, map, topic) ==
    IF ~IsIterable(line_ids) THEN Raised("TypeError")
    ELSE LET items == IterItems(line_ids)
             kept == SelectSeq(items, LAMBDA x : IsHashable(x) /\ InMap(x, map))
         IN  Returned([i \in 1..Len(kept) |-> EvidenceRecord(kept[i], map, topic)])

RECURSIVE DedupLoop(_, _, _, _)
DedupLoop(items, map, topic, evidence) ==
    IF items = <<>> THEN Returned(evidence)
    ELSE LET line_id == Head(items)
             rec == EvidenceRecord(line_id, map, topic)
         IN  IF ~IsHashable(line_id) THEN Raised("TypeError")
             ELSE IF /\ InMap(line_id, map)
                     /\ MapGet(line_id, map) # <<>>
                     /\ \A i \in 1..Len(evidence) : evidence[i] # rec
             THEN DedupLoop(Tail(items), map, topic, Append(evidence, rec))
             ELSE DedupLoop(Tail(items), map, topic, evidence)

\* the slip of keeping only the first record of a repeated identifier
extract_evidence_deduplicated(line_ids, map, topic) ==
    IF ~IsIterable(line_ids) THEN Raised("TypeError")
    ELSE DedupLoop(IterItems(line_ids), map, topic, <<>>)

extract_evidence_from_line_ids(line_ids, map, topic) ==
    IF ~IsIterable(line_ids) THEN Raised("TypeError")
    ELSE EvidenceLoop(IterItems(line_ids), map, topic, <<>>)

(***************************************************************************)
(* json.loads.  The texts of the model hold no backslash, no exponent and  *)
(* no NaN or Infinity, so the decoder's branches for those are left out.   *)
(***************************************************************************)
\* the character at position i, "" past the end
CharAt(s, i) == IF i >= 1 /\ i <= Len(s) THEN s[i] ELSE ""

IsJsonSpace(c) == c \in {" ", "\t", "\n", "\r"}
IsDigit(c) == c \in {"0", "1", "2", "3", "4", "5", "6", "7", "8", "9"}
IsControl(c) == c \in {"\n", "\t", "\r"}

\* the first position from i on that holds no whitespace
SkipSpace(s, i) ==
    CHOOSE j \in i..(Len(s) + 1) :
        /\ ~IsJsonSpace(CharAt(s, j))
        /\ \A k \in i..(j - 1) : IsJsonSpace(s[k])

\* the first position from i on that holds no digit
DigitsEnd(s, i) ==
    CHOOSE j \in i..(Len(s) + 1) :
        /\ ~IsDigit(CharAt(s, j))
        /\ \A k \in i..(j - 1) : IsDigit(s[k])

DigitValue(c) == CHOOSE d \in 0..9 : DigitChars[d + 1] = c

RECURSIVE ToInt(_)
ToInt(digits) ==
    IF digits = <<>> THEN 0
    ELSE 10 * ToInt(SubSeq(digits, 1, Len(digits) - 1)) + DigitValue(digits[Len(digits)])

Parsed(val, pos) == [ok |-> TRUE, val |-> val, pos |-> pos]
ParseError == [ok |-> FALSE, val |-> NoValue, pos |-> 0]

\* a string starting at the quote at position i: up to the next quote, no
\* control character allowed inside
ScanString(s, i) ==
    IF \E j \in (i + 1)..Len(s) : s[j] = "\""
    THEN LET close == CHOOSE j \in (i + 1)..Len(s) :
                          s[j] = "\"" /\ \A k \in (i + 1)..(j - 1) : s[k] # "\""
         IN  IF \E k \in (i + 1)..(close - 1) : IsControl(s[k]) THEN ParseError
             ELSE Parsed(PyStr(SubSeq(s, i + 1, close - 1)), close + 1)
    ELSE ParseError

\* a number at position i: an optional minus, then 0 or a run of digits not
\* starting with 0, then an optional point and digits
ScanNumber(s, i) ==
    LET neg == CharAt(s, i) = "-"
        first == IF neg THEN i + 1 ELSE i
        intEnd == IF CharAt(s, first) = "0" THEN first + 1 ELSE DigitsEnd(s, first)
        whole == ToInt(SubSeq(s, first, intEnd - 1))
        hasFrac == CharAt(s, intEnd) = "." /\ IsDigit(CharAt(s, intEnd + 1))
        fracEnd == DigitsEnd(s, intEnd + 1)
    IN  IF ~IsDigit(CharAt(s, first)) THEN ParseError
        ELSE IF hasFrac
        THEN Parsed(PyFloat(IF neg THEN 0 - 1 ELSE 1, whole,
                            DropTrailingZeros(SubSeq(s, intEnd + 1, fracEnd - 1))), fracEnd)
        ELSE Parsed(PyInt(IF neg THEN 0 - whole ELSE whole), intEnd)

HasAt(s, i, word) == i + Len(word) - 1 <= Len(s) /\ SubSeq(s, i, i + Len(word) - 1) = word

RECURSIVE ScanOnce(_, _)
RECURSIVE ScanMembers(_, _, _)
RECURSIVE ScanItems(_, _, _)

\* the members of an object, i at a key's opening quote, pairs the members
\* read so far
ScanMembers(s, i, pairs) ==
    LET key == ScanString(s, i)
        colon == SkipSpace(s, key.pos)
        value == ScanOnce(s, SkipSpace(s, colon + 1))
        after == SkipSpace(s, value.pos)
        next == SkipSpace(s, after + 1)
        sofar == DictSet(pairs, key.val.v, value.val)
    IN  IF ~key.ok THEN ParseError
        ELSE IF CharAt(s, colon) # ":" THEN ParseError
        ELSE IF ~value.ok THEN ParseError
        ELSE IF CharAt(s, after) = "}" THEN Parsed(PyDict(sofar), after + 1)
        ELSE IF CharAt(s, after) # "," THEN ParseError
        ELSE IF CharAt(s, next) # "\"" THEN ParseError
        ELSE ScanMembers(s, next, sofar)

\* the items of an array, i at an item's start, items those read so far
ScanItems(s, i, items) ==
    LET value == ScanOnce(s, i)
        after == SkipSpace(s, value.pos)
    IN  IF ~value.ok THEN ParseError
        ELSE IF CharAt(s, after) = "]" THEN Parsed(PyList(Append(items, value.val)), after + 1)
        ELSE IF CharAt(s, after) # "," THEN ParseError
        ELSE ScanItems(s, SkipSpace(s, after + 1), Append(items, value.val))

\* one JSON value starting at position i
ScanOnce(s, i) ==
    LET c == CharAt(s, i)
        inner == SkipSpace(s, i + 1)
    IN  CASE c = "\"" -> ScanString(s, i)
          [] c = "{" -> IF CharAt(s, inner) = "}" THEN Parsed(PyDict(<<>>), inner + 1)
                        ELSE IF CharAt(s, inner) # "\"" THEN ParseError
                        ELSE ScanMembers(s, inner, <<>>)
          [] c = "[" -> IF CharAt(s, inner) = "]" THEN Parsed(PyList(<<>>), inner + 1)
                        ELSE ScanItems(s, inner, <<>>)
          [] c = "n" -> IF HasAt(s, i, <<"n", "u", "l", "l">>) THEN Parsed(PyNone, i + 4)
                        ELSE ParseError
          [] c = "t" -> IF HasAt(s, i, <<"t", "r", "u", "e">>) THEN Parsed(PyBool(TRUE), i + 4)
                        ELSE ParseError
          [] c = "f" -> IF HasAt(s, i, <<"f", "a", "l", "s", "e">>) THEN Parsed(PyBool(FALSE), i + 5)
                        ELSE ParseError
          [] OTHER -> ScanNumber(s, i)

\* json.loads(s): one value, whitespace around it, nothing else
json_loads(s) ==
    LET value == ScanOnce(s, SkipSpace(s, 1))
    IN  IF value.ok /\ SkipSpace(s, value.pos) = Len(s) + 1 THEN Returned(value.val)
        ELSE Raised("JSONDecodeError")

(***************************************************************************)
(* must_json                                                               *)
(***************************************************************************)
\* the grave accent U+0060, which a TLA+ string literal cannot hold: the one
\* character of the model written as a name
Backtick == "GRAVE"
Fence == <<Backtick, Backtick, Backtick>>
JsonTag == <<"j", "s", "o", "n">>

\* the text without its markdown code fence
StripFence(text) ==
    LET lines == Split(text)
        n == Len(lines)
        body == IF Strip(lines[n]) = Fence THEN SubSeq(lines, 2, n - 1)
                ELSE SubSeq(lines, 2, n)
        inner == Strip(Join(body))
    IN  IF StartsWith(inner, JsonTag) THEN Strip(SubSeq(inner, 5, Len(inner))) ELSE inner

\* the number of positions from..to of text that hold c
CountChar(text, c, from, to) == Cardinality({k \in from..to : text[k] = c})

\* the for loop from the first "{" at position start: count goes up on "{" and
\* down on "}", and the loop breaks at the first position where it is back at
\* zero, which is the first position up to which as many "}" as "{" occur;
\* 0 when the text ends first
BraceScan(text, start) ==
    LET balanced == {i \in start..Len(text) :
                        CountChar(text, "{", start, i) = CountChar(text, "}", start, i)}
    IN  IF balanced = {} THEN 0
        ELSE CHOOSE i \in balanced : \A j \in balanced : i <= j

\* the text cut to its first balanced object, when it has one
SliceObject(text) ==
    IF Contains(text, "{")
    THEN LET start == Find(text, "{")
             last == BraceScan(text, start)
         IN  IF last > 0 THEN SubSeq(text, start, last) ELSE text
    ELSE text

must_json(text) ==
    LET stripped == Strip(text)
        unfenced == IF StartsWith(stripped, Fence) THEN StripFence(stripped) ELSE stripped
    IN  json_loads(SliceObject(unfenced))

(***************************************************************************)
(* The texts a model backend can reply with.                               *)
(***************************************************************************)
RECURSIVE Dumps(_)
RECURSIVE DumpsItems(_)
RECURSIVE DumpsMembers(_)

DumpsItems(items) ==
    IF items = <<>> THEN <<>>
    ELSE IF Len(items) = 1 THEN Dumps(items[1])
    ELSE Dumps(items[1]) \o <<",", " ">> \o DumpsItems(Tail(items))

DumpsMembers(pairs) ==
    IF pairs = <<>> THEN <<>>
    ELSE LET member == <<"\"">> \o pairs[1][1] \o <<"\"", ":", " ">> \o Dumps(pairs[1][2])
         IN  IF Len(pairs) = 1 THEN member
             ELSE member \o <<",", " ">> \o DumpsMembers(Tail(pairs))

\* the JSON text of a value, as a well-behaved backend writes it
Dumps(x) ==
    CASE x.t = "int" -> StrInt(x.v)
      [] x.t = "float" -> Format(x)
      [] x.t = "str" -> <<"\"">> \o x.v \o <<"\"">>
      [] x.t = "bool" -> IF x.v THEN <<"t", "r", "u", "e">> ELSE <<"f", "a", "l", "s", "e">>
      [] x.t = "null" -> <<"n", "u", "l", "l">>
      [] x.t = "list" -> <<"[">> \o DumpsItems(x.v) \o <<"]">>
      [] x.t = "obj" -> <<"{">> \o DumpsMembers(x.v) \o <<"}">>

\* the values without structure: a number, and strings with and without a
\* brace character in them
Atoms == {PyInt(1), PyStr(<<"x">>), PyStr(<<"}">>), PyStr(<<"{">>)}

RECURSIVE JsonValues(_)
\* the values nested at most depth deep
JsonValues(depth) ==
    IF depth = 0 THEN Atoms
    ELSE LET inner == JsonValues(depth - 1)
         IN  Atoms \cup {PyList(<<>>), PyDict(<<>>)}
                 \cup {PyList(<<v>>) : v \in inner}
                 \cup {PyDict(<<<<<<"a">>, v>>>>) : v \in inner}

\* syntactically valid JSON objects: of one member nested up to MaxDepth, and
\* of two members
JsonObjects ==
    {x \in JsonValues(MaxDepth) : IsDict(x)}
        \cup {PyDict(<<<<<<"a">>, v>>, <<<<"b">>, w>>>>) : v, w \in JsonValues(MaxDepth - 1)}

Leads == {<<>>, <<"S", "u", "r", "e", "!", " ">>, <<"}", " ">>}
Trails == {<<>>, <<" ", "o", "k", ".">>, <<" ", "{", "}">>}

\* prose, one object, prose
ProseTexts ==
    {[text |-> lead \o Dumps(obj) \o trail, shape |-> "prose", embedded |-> obj] :
        lead \in Leads, obj \in JsonObjects, trail \in Trails}

\* an object in a code fence: the opening fence line with or without the json
\* tag, the object, with or without a closing fence line
FencedTexts ==
    {[text |-> Fence \o tag \o <<NL>> \o Dumps(obj) \o closing,
      shape |-> "fenced", embedded |-> obj] :
        tag \in {<<>>, JsonTag}, obj \in JsonObjects, closing \in {<<>>, <<NL>> \o Fence}}

\* an object between two fences on one line
InlineTexts ==
    {[text |-> Fence \o Dumps(obj) \o Fence, shape |-> "inline", embedded |-> obj] :
        obj \in JsonObjects}

\* texts without any brace
RawTexts ==
    {[text |-> t, shape |-> "raw", embedded |-> NoValue] :
        t \in SeqsUpTo({"1", "[", "]", "x", " "}, MaxRawLen)}

ReplyTexts == ProseTexts \cup FencedTexts \cup InlineTexts \cup RawTexts

(***************************************************************************)
(* must_json called on every reply text.                                   *)
(***************************************************************************)
InitJson ==
    /\ pc = "call"
    /\ arg \in ReplyTexts
    /\ ret = NoValue
    /\ PipelineIdle

CallMustJson ==
    /\ pc = "call"
    /\ ret' = must_json(arg.text)
    /\ pc' = "return"
    /\ UNCHANGED <<arg, pipeVars>>

NextJson == CallMustJson

SpecJson == InitJson /\ [][NextJson]_vars

\* C4: from prose, one valid JSON object, prose, must_json returns the
\* embedded object unmodified.
C4_ExtractionRobust ==
    (pc = "return" /\ arg.shape = "prose") => ret = Returned(arg.embedded)

\* C5: on a text without "{" must_json fails and returns no value.
C5_NoBraceFails ==
    (pc = "return" /\ ~Contains(arg.text, "{")) => ret.raised

\* C10: from a fenced response wrapping a valid JSON object, with or without
\* the json tag and the closing fence line, must_json returns the wrapped
\* object.
C10_FenceThenBraces ==
    (pc = "return" /\ arg.shape = "fenced") => ret = Returned(arg.embedded)

(***************************************************************************)
(* extract_evidence_from_line_ids called on every line map of a document   *)
(* and every identifier value a parsed reply can hold.                     *)
(***************************************************************************)
Topics == {"index_test_blinding", "threshold"}

\* what a reply can put in an identifier list: integers in and out of range,
\* and the other JSON values: true, 1.0, "1", null, [1]
Candidates ==
    {PyInt(n) : n \in {0, 1, 2, 3, 99}}
        \cup {PyBool(TRUE), PyFloat(1, 1, <<"0">>), PyStr(<<"1">>), PyNone,
              PyList(<<PyInt(1)>>)}

\* what a reply can put under an identifier key: a list, or any other value
LineIdValues ==
    {PyList(ids) : ids \in SeqsUpTo(Candidates, MaxIds)}
        \cup {PyInt(5), PyNone, PyStr(<<"1", "3">>), PyDict(<<<<<<"1">>, PyInt(2)>>>>)}

LineMaps == {number_lines(d).line_map : d \in Docs}

InitResolve ==
    /\ pc = "call"
    /\ arg \in [line_ids : LineIdValues, line_map : LineMaps, topic : Topics]
    /\ ret = NoValue
    /\ PipelineIdle

CallExtractEvidence ==
    /\ pc = "call"
    /\ ret' = extract_evidence_from_line_ids(arg.line_ids, arg.line_map, arg.topic)
    /\ pc' = "return"
    /\ UNCHANGED <<arg, pipeVars>>

NextResolve == CallExtractEvidence

SpecResolve == InitResolve /\ [][NextResolve]_vars

\* a list all of whose items are integers: a sequence of line identifiers
IsIdentifierList(x) == x.t = "list" /\ \A i \in 1..Len(x.v) : x.v[i].t = "int"

\* an identifier that is a key of the map with non-empty text
Resolves(id, map) == id.v \in DOMAIN map /\ map[id.v] # <<>>

\* C2: for a sequence of line identifiers the call returns one record per
\* identifier that is a key of the line map with non-empty text, none for any
\* other identifier, in the order of the input.
C2_Filtering ==
    (pc = "return" /\ IsIdentifierList(arg.line_ids)) =>
        /\ ~ret.raised
        /\ LET kept == SelectSeq(arg.line_ids.v, LAMBDA id : Resolves(id, arg.line_map))
           IN  /\ Len(ret.value) = Len(kept)
               /\ \A i \in 1..Len(kept) :
                      /\ ret.value[i].location = LinePrefix \o StrInt(kept[i].v)
                      /\ ret.value[i].quote = arg.line_map[kept[i].v]
                      /\ ret.value[i].topic = arg.topic

\* C2's case: a blank-mapped and an out-of-range identifier dropped between
\* kept ones (map {1: "a", 2: "", 3: "a"}, ids [99, 3])
C2_Witness ==
    /\ pc = "return"
    /\ DOMAIN arg.line_map = 1..3
    /\ arg.line_map[2] = <<>>
    /\ arg.line_map[3] # <<>>
    /\ arg.line_ids = PyList(<<PyInt(99), PyInt(3)>>)
    /\ Len(ret.value) = 1

\* C8: whatever values an identifier list holds, the call returns.
C8_NeverRaises ==
    (pc = "return" /\ arg.line_ids.t = "list") => ~ret.raised

\* C9 as stated: the returned sequence holds at most one record per line
\* identifier.
C9_DuplicatesDropped ==
    (pc = "return" /\ ~ret.raised) =>
        \A i, j \in 1..Len(ret.value) :
            ret.value[i].location = ret.value[j].location => i = j

\* C9 amended: the returned sequence holds one record per occurrence of each
\* resolving line identifier of the input.
C9_DuplicatesKept ==
    (pc = "return" /\ ~ret.raised /\ arg.line_ids.t = "list") =>
        \A k \in DOMAIN arg.line_map :
            arg.line_map[k] # <<>> =>
                Cardinality({i \in 1..Len(ret.value) :
                                 ret.value[i].location = LinePrefix \o StrInt(k)})
                    = Cardinality({j \in 1..Len(arg.line_ids.v) : arg.line_ids.v[j] = PyInt(k)})

\* C9's case: the same resolving identifier twice, two records returned
C9_Witness ==
    /\ pc = "return"
    /\ arg.line_ids = PyList(<<PyInt(1), PyInt(1)>>)
    /\ ~ret.raised
    /\ Len(ret.value) = 2
    /\ ret.value[1] = ret.value[2]

(***************************************************************************)
(* number_lines called on every document.                                  *)
(***************************************************************************)
InitLines ==
    /\ pc = "call"
    /\ arg \in Docs
    /\ ret = NoValue
    /\ PipelineIdle

CallNumberLines ==
    /\ pc = "call"
    /\ ret' = number_lines(arg)
    /\ pc' = "return"
    /\ UNCHANGED <<arg, pipeVars>>

NextLines == CallNumberLines

SpecLines == InitLines /\ [][NextLines]_vars

\* what a document's lines are, stated without splitting: the i-th line runs
\* from just after the (i-1)-th newline to just before the i-th
NewlinePositions(s) == {p \in 1..Len(s) : s[p] = NL}
LineCount(s) == Cardinality(NewlinePositions(s)) + 1
LineStart(s, i) ==
    IF i = 1 THEN 1
    ELSE 1 + CHOOSE p \in NewlinePositions(s) :
                 Cardinality({q \in NewlinePositions(s) : q < p}) = i - 2
LineEnd(s, i) ==
    IF i = LineCount(s) THEN Len(s)
    ELSE (CHOOSE p \in NewlinePositions(s) :
              Cardinality({q \in NewlinePositions(s) : q < p}) = i - 1) - 1
LineOf(s, i) == SubSeq(s, LineStart(s, i), LineEnd(s, i))

\* C3: for a document of N lines number_lines returns a line map whose keys
\* are exactly 1..N, key i mapped to the trimmed i-th line, and a numbered
\* text of exactly N lines, the i-th being "[LINE_i] " and then the i-th line.
C3_LineCount ==
    pc = "return" =>
        LET N == LineCount(arg)
        IN  /\ DOMAIN ret.line_map = 1..N
            /\ \A i \in 1..N : ret.line_map[i] = Strip(LineOf(arg, i))
            /\ LineCount(ret.numbered_text) = N
            /\ \A i \in 1..N :
                   LineOf(ret.numbered_text, i) = NumberedLine(i, LineOf(arg, i))

\* C3's case: a document with an empty line and a line that needs trimming
C3_Witness ==
    /\ pc = "return"
    /\ LineCount(arg) = 3
    /\ LineOf(arg, 2) = <<>>
    /\ LineOf(arg, 3) = <<" ", "a">>
    /\ ret.line_map[3] = <<"a">>

(***************************************************************************)
(* main(): the pipeline.                                                   *)
(***************************************************************************)
Files == {"STUDY_TEXT_PATH", "EXTRACT_PROMPT_PATH", "JUDGE_PROMPT_PATH", "SCHEMA_PATH"}

KeyBlinding == <<"i", "n", "d", "e", "x", "_", "t", "e", "s", "t", "_", "b", "l", "i", "n", "d", "i", "n", "g", "_", "l", "i", "n", "e", "_", "i", "d", "s">>
KeyThreshold == <<"t", "h", "r", "e", "s", "h", "o", "l", "d", "_", "l", "i", "n", "e", "_", "i", "d", "s">>
KeyNotFound == <<"n", "o", "t", "_", "f", "o", "u", "n", "d">>

\* the steps of main() in program order
PipelineOrder ==
    <<"check_files", "read_inputs", "index", "call_extract", "parse_extract",
      "resolve", "call_judge", "parse_judge", "validate", "persist">>

\* the documents the study file can hold
PipeDocs == SeqsUpTo(DocChars, MaxPipeDocLen)

\* the schemas the schema file can hold, by the two keywords the model knows:
\* "type" and "required"
Schemas ==
    {[type |-> "object", required |-> {<<"a">>}],
     [type |-> "any", required |-> {}]}

\* jsonschema.validate(instance, schema) passes
Conforms(instance, sch) ==
    /\ sch.type = "object" => IsDict(instance)
    /\ IsDict(instance) =>
           \A key \in sch.required : \E i \in 1..Len(instance.v) : instance.v[i][1] = key

\* what the extraction reply can put under the blinding key
PipeCandidates ==
    {PyInt(1), PyInt(2), PyInt(99), PyBool(TRUE), PyList(<<PyInt(1)>>)}
PipeIdValues ==
    {PyList(ids) : ids \in SeqsUpTo(PipeCandidates, MaxPipeIds)} \cup {PyNone}
ThresholdValues == {PyList(<<>>), PyList(<<PyInt(2)>>)}

ExtractReply(blinding, threshold) ==
    PyDict(<<<<KeyBlinding, blinding>>, <<KeyThreshold, threshold>>,
             <<KeyNotFound, PyList(<<>>)>>>>)

\* the replies of the backend to the extraction call: the requested object
\* bare, in a fence and in prose, an object without the keys, a list, and
\* text that is no JSON
ExtractReplies ==
    {Dumps(ExtractReply(b, t)) : b \in PipeIdValues, t \in ThresholdValues}
        \cup {Fence \o JsonTag \o <<NL>>
                  \o Dumps(ExtractReply(PyList(<<PyInt(1)>>), PyList(<<>>)))
                  \o <<NL>> \o Fence,
              <<"O", "K", " ">> \o Dumps(ExtractReply(PyList(<<PyInt(1)>>), PyList(<<>>)))
                  \o <<NL>>,
              Dumps(PyDict(<<>>)),
              Dumps(PyList(<<PyInt(1)>>)),
              <<"n", "o">>}

\* the replies of the backend to the judgment call
JudgeReplies ==
    {Dumps(PyDict(<<<<<<"a">>, PyInt(1)>>>>)),
     <<" ">> \o Dumps(PyDict(<<<<<<"b">>, PyInt(1)>>>>)),
     Dumps(PyInt(1)),
     <<"n", "o">>}

Init ==
    /\ pc = "start"
    /\ missing \in SUBSET Files
    /\ schema = NoValue
    /\ study_text = <<>>
    /\ numbered_text = <<>>
    /\ line_map = <<>>
    /\ extract_raw = <<>>
    /\ line_ids_result = NoValue
    /\ evidence_quotes = <<>>
    /\ not_found = NoValue
    /\ judge_raw = <<>>
    /\ result = NoValue
    /\ calls = 0
    /\ written = 0
    /\ steps = <<>>
    /\ err = "none"
    /\ arg = NoValue
    /\ ret = NoValue

\* an exception leaves main(): nothing catches it
Abort(exc) ==
    /\ pc' = "aborted"
    /\ err' = exc

Step(name) == steps' = Append(steps, name)

\* for p in [...]: if not p.exists(): raise FileNotFoundError
CheckFiles ==
    /\ pc = "start"
    /\ Step("check_files")
    /\ IF missing # {} THEN Abort("FileNotFoundError")
       ELSE pc' = "checked" /\ err' = err
    /\ UNCHANGED <<missing, schema, study_text, numbered_text, line_map, extract_raw,
                   line_ids_result, evidence_quotes, not_found, judge_raw, result,
                   calls, written, fnVars>>

\* the four read_text calls, and json.loads of the schema text
ReadInputs ==
    /\ pc = "checked"
    /\ Step("read_inputs")
    /\ \/ \E doc \in PipeDocs, sch \in Schemas :
              /\ study_text' = doc
              /\ schema' = sch
              /\ pc' = "loaded"
              /\ err' = err
       \/ /\ Abort("JSONDecodeError")
          /\ UNCHANGED <<study_text, schema>>
    /\ UNCHANGED <<missing, numbered_text, line_map, extract_raw, line_ids_result,
                   evidence_quotes, not_found, judge_raw, result, calls, written, fnVars>>

\* numbered_text, line_map = number_lines(study_text)
Index ==
    /\ pc = "loaded"
    /\ Step("index")
    /\ numbered_text' = number_lines(study_text).numbered_text
    /\ line_map' = number_lines(study_text).line_map
    /\ pc' = "indexed"
    /\ UNCHANGED <<missing, schema, study_text, extract_raw, line_ids_result,
                   evidence_quotes, not_found, judge_raw, result, calls, written, err,
                   fnVars>>

\* extract_raw = call_llm(extract_prompt, extract_user_payload): the request is
\* sent, and either raises or returns the stripped content of the reply
CallExtract ==
    /\ pc = "indexed"
    /\ Step("call_extract")
    /\ calls' = calls + 1
    /\ \/ \E reply \in ExtractReplies :
              /\ extract_raw' = Strip(reply)
              /\ pc' = "extract_called"
              /\ err' = err
       \/ /\ Abort("RequestException")
          /\ UNCHANGED extract_raw
    /\ UNCHANGED <<missing, schema, study_text, numbered_text, line_map, line_ids_result,
                   evidence_quotes, not_found, judge_raw, result, written, fnVars>>

\* the slip of going on with an empty object when the reply does not parse
ParseExtractDegraded ==
    /\ pc = "extract_called"
    /\ Step("parse_extract")
    /\ LET r == must_json(extract_raw)
       IN  IF r.raised
           THEN /\ err' = r.exc
                /\ pc' = "extracted"
                /\ line_ids_result' = PyDict(<<>>)
           ELSE /\ line_ids_result' = r.value
                /\ pc' = "extracted"
                /\ err' = err
    /\ UNCHANGED <<missing, schema, study_text, numbered_text, line_map, extract_raw,
                   evidence_quotes, not_found, judge_raw, result, calls, written, fnVars>>

\* line_ids_result = must_json(extract_raw)
ParseExtract ==
    /\ pc = "extract_called"
    /\ Step("parse_extract")
    /\ LET r == must_json(extract_raw)
       IN  IF r.raised
           THEN Abort(r.exc) /\ UNCHANGED line_ids_result
           ELSE /\ line_ids_result' = r.value
                /\ pc' = "extracted"
                /\ err' = err
    /\ UNCHANGED <<missing, schema, study_text, numbered_text, line_map, extract_raw,
                   evidence_quotes, not_found, judge_raw, result, calls, written, fnVars>>

\* the two evidence_quotes.extend(extract_evidence_from_line_ids(...)) calls
\* and the building of extracted
Resolve ==
    /\ pc = "extracted"
    /\ Step("resolve")
    /\ IF ~IsDict(line_ids_result)
       THEN Abort("AttributeError") /\ UNCHANGED <<evidence_quotes, not_found>>
       ELSE LET blinding == extract_evidence_from_line_ids(
                                DictGet(line_ids_result, KeyBlinding, PyList(<<>>)),
                                line_map, "index_test_blinding")
                threshold == extract_evidence_from_line_ids(
                                 DictGet(line_ids_result, KeyThreshold, PyList(<<>>)),
                                 line_map, "threshold")
            IN  IF blinding.raised
                THEN Abort(blinding.exc) /\ UNCHANGED <<evidence_quotes, not_found>>
                ELSE IF threshold.raised
                THEN /\ Abort(threshold.exc)
                     /\ evidence_quotes' = blinding.value
                     /\ UNCHANGED not_found
                ELSE /\ evidence_quotes' = blinding.value \o threshold.value
                     /\ not_found' = DictGet(line_ids_result, KeyNotFound, PyList(<<>>))
                     /\ pc' = "verified"
                     /\ err' = err
    /\ UNCHANGED <<missing, schema, study_text, numbered_text, line_map, extract_raw,
                   line_ids_result, judge_raw, result, calls, written, fnVars>>

\* judge_raw = call_llm(judge_prompt, judge_user_payload)
CallJudge ==
    /\ pc = "verified"
    /\ Step("call_judge")
    /\ calls' = calls + 1
    /\ \/ \E reply \in JudgeReplies :
              /\ judge_raw' = Strip(reply)
              /\ pc' = "judge_called"
              /\ err' = err
       \/ /\ Abort("RequestException")
          /\ UNCHANGED judge_raw
    /\ UNCHANGED <<missing, schema, study_text, numbered_text, line_map, extract_raw,
                   line_ids_result, evidence_quotes, not_found, result, written, fnVars>>

\* the slip of asking the backend again when the judgment does not parse
ParseJudgeRetrying ==
    /\ pc = "judge_called"
    /\ Step("parse_judge")
    /\ LET r == must_json(judge_raw)
       IN  IF r.raised
           THEN IF calls < 3
                THEN pc' = "verified" /\ err' = err /\ UNCHANGED result
                ELSE Abort(r.exc) /\ UNCHANGED result
           ELSE /\ result' = r.value
                /\ pc' = "judged"
                /\ err' = err
    /\ UNCHANGED <<missing, schema, study_text, numbered_text, line_map, extract_raw,
                   line_ids_result, evidence_quotes, not_found, judge_raw, calls, written,
                   fnVars>>

\* result = must_json(judge_raw)
ParseJudge ==
    /\ pc = "judge_called"
    /\ Step("parse_judge")
    /\ LET r == must_json(judge_raw)
       IN  IF r.raised
           THEN Abort(r.exc) /\ UNCHANGED result
           ELSE /\ result' = r.value
                /\ pc' = "judged"
                /\ err' = err
    /\ UNCHANGED <<missing, schema, study_text, numbered_text, line_map, extract_raw,
                   line_ids_result, evidence_quotes, not_found, judge_raw, calls, written,
                   fnVars>>

\* validate_schema(result, schema)
Validate ==
    /\ pc = "judged"
    /\ Step("validate")
    /\ IF Conforms(result, schema) THEN pc' = "validated" /\ err' = err
       ELSE Abort("ValidationError")
    /\ UNCHANGED <<missing, schema, study_text, numbered_text, line_map, extract_raw,
                   line_ids_result, evidence_quotes, not_found, judge_raw, result, calls,
                   written, fnVars>>

\* out_dir.mkdir(exist_ok=True) and out_path.write_text(...): the file is
\* written, or the file system refuses
Persist ==
    /\ pc = "validated"
    /\ Step("persist")
    /\ \/ /\ written' = written + 1
          /\ pc' = "persisted"
          /\ err' = err
       \/ /\ Abort("OSError")
          /\ UNCHANGED written
    /\ UNCHANGED <<missing, schema, study_text, numbered_text, line_map, extract_raw,
                   line_ids_result, evidence_quotes, not_found, judge_raw, result, calls,
                   fnVars>>

Next ==
    \/ CheckFiles
    \/ ReadInputs
    \/ Index
    \/ CallExtract
    \/ ParseExtract
    \/ Resolve
    \/ CallJudge
    \/ ParseJudge
    \/ Validate
    \/ Persist

Spec == Init /\ [][Next]_vars

IsPrefixOf(short, long) ==
    /\ Len(short) <= Len(long)
    /\ \A i \in 1..Len(short) : short[i] = long[i]

\* the quote is the trimmed text of a line of the document, and not empty
QuoteGrounded(record) ==
    /\ record.quote # <<>>
    /\ \E k \in 1..LineCount(study_text) : record.quote = Strip(LineOf(study_text, k))

\* the location reads "Line <id>" for the identifier of the line quoted
LocationNamesLine(record) ==
    \E k \in 1..LineCount(study_text) :
        /\ record.location = LinePrefix \o StrInt(k)
        /\ record.quote = Strip(LineOf(study_text, k))

\* C1: every record in evidence_quotes has a non-empty quote that is the
\* trimmed text of the document line whose identifier its location names.
C1_Grounding ==
    \A i \in 1..Len(evidence_quotes) :
        QuoteGrounded(evidence_quotes[i]) /\ LocationNamesLine(evidence_quotes[i])

\* C6: the steps run in program order, none twice and none out of turn, with
\* at most two model calls and at most one write of the artifact, which
\* happens only after the judged object passed schema validation.
C6_PipelineOrder ==
    /\ IsPrefixOf(steps, PipelineOrder)
    /\ calls = Cardinality({i \in 1..Len(steps) : steps[i] \in {"call_extract", "call_judge"}})
    /\ calls <= 2
    /\ written <= 1
    /\ written = 1 =>
           /\ steps = PipelineOrder
           /\ Conforms(result, schema)

\* C6's case: a run that went through every step and wrote the artifact
C6_Witness ==
    /\ pc = "persisted"
    /\ steps = PipelineOrder
    /\ calls = 2
    /\ written = 1

\* C7: a step runs only in a run that has not failed; a failing step ends the
\* run with nothing written, and a missing input file ends it before any
\* model call.
C7_FailureAborts ==
    [][/\ err = "none"
       /\ pc # "aborted"
       /\ err' # "none" => (pc' = "aborted" /\ written' = 0)
       /\ err' = "FileNotFoundError" => (calls' = 0 /\ steps' = <<"check_files">>)]_vars

\* C7's case: the run ended by a schema violation after both model calls
C7_Witness ==
    /\ pc = "aborted"
    /\ err = "ValidationError"
    /\ calls = 2
    /\ written = 0

====
